---- MODULE Spec2Model ----
(***************************************************************************)
(* A model of baseclasses/utils/solverHistory.py: the HistoryVariable      *)
(* column class and the SolverHistory recorder that owns the columns.      *)
(*                                                                         *)
(* A SolverHistory object is the record `self`; every method is an         *)
(* operator from the object (and the call's arguments) to the object after *)
(* the call plus the exception raised, and one action per public method    *)
(* applies it.  `last` is the call that was made last and what the caller  *)
(* saw of it (exception, warning, printed rows); `now` is the wall clock   *)
(* read by time.time(); `since` is the history of the calls made since the *)
(* object was constructed or last reset.                                   *)
(***************************************************************************)
EXTENDS Integers, Sequences, FiniteSets, TLC

VARIABLES self, now, last, since

vars == <<self, now, last, since>>

(***************************************************************************)
(* Bounds of the model.                                                    *)
(***************************************************************************)
\* longest column the model records (rows written, or bulk-loaded)
MaxRows == 2
\* last tick of the wall clock
MaxClock == 2

(***************************************************************************)
(* Python values.  A float is kept in tenths (F(15) is 1.5).               *)
(***************************************************************************)
None == [k |-> "None", n |-> 0, s |-> ""]
I(n) == [k |-> "int", n |-> n, s |-> ""]
F(t) == [k |-> "float", n |-> t, s |-> ""]
S(x) == [k |-> "str", n |-> 0, s |-> x]

\* the exceptions and the warning a call can end with
NoError == "ok"
TypeConversion == "TypeError"
UnknownVariable == "ValueError:UnknownVariable"
Configuration == "ValueError:Format"
OutOfRange == "ValueError:OutOfRange"
IndexOutOfRange == "IndexError"
EmptyIters == "ValueError:max"

Digit == <<"0", "1", "2", "3", "4", "5", "6", "7", "8", "9">>

\* str(n) of a Python int
RECURSIVE NatStr(_)
NatStr(n) == IF n < 10 THEN Digit[n + 1] ELSE NatStr(n \div 10) \o Digit[(n % 10) + 1]

IntStr(n) == IF n < 0 THEN "-" \o NatStr(-n) ELSE NatStr(n)

\* str(x) of a Python float with one decimal, x given in tenths
FloatStr(t) ==
    IF t < 0 THEN "-" \o NatStr((-t) \div 10) \o "." \o Digit[((-t) % 10) + 1]
    ELSE NatStr(t \div 10) \o "." \o Digit[(t % 10) + 1]

\* the numbers a string of the model can denote
LiteralRange == 0..40

\* int(x) truncates a float towards zero
Trunc(t) == IF t < 0 THEN -((-t) \div 10) ELSE t \div 10

\* varType(value): the conversion HistoryVariable applies, with the ValueError
\* Python raises for a string that is no literal of the type
Convert(varType, value) ==
    CASE varType = "int" ->
           CASE value.k = "int" -> [ok |-> TRUE, val |-> value]
             [] value.k = "float" -> [ok |-> TRUE, val |-> I(Trunc(value.n))]
             [] OTHER ->
                  IF \E m \in LiteralRange : IntStr(m) = value.s
                  THEN [ok |-> TRUE,
                        val |-> I(CHOOSE m \in LiteralRange : IntStr(m) = value.s)]
                  ELSE [ok |-> FALSE, val |-> None]
      [] varType = "float" ->
           CASE value.k = "int" -> [ok |-> TRUE, val |-> F(10 * value.n)]
             [] value.k = "float" -> [ok |-> TRUE, val |-> value]
             [] OTHER ->
                  IF \E m \in LiteralRange : FloatStr(m) = value.s
                  THEN [ok |-> TRUE,
                        val |-> F(CHOOSE m \in LiteralRange : FloatStr(m) = value.s)]
                  ELSE IF \E m \in LiteralRange : IntStr(m) = value.s
                  THEN [ok |-> TRUE,
                        val |-> F(10 * (CHOOSE m \in LiteralRange : IntStr(m) = value.s))]
                  ELSE [ok |-> FALSE, val |-> None]
      [] OTHER ->
           CASE value.k = "int" -> [ok |-> TRUE, val |-> S(IntStr(value.n))]
             [] value.k = "float" -> [ok |-> TRUE, val |-> S(FloatStr(value.n))]
             [] OTHER -> [ok |-> TRUE, val |-> value]

(***************************************************************************)
(* HistoryVariable                                                         *)
(***************************************************************************)
HistoryVariable(name, varType, valueFormat, headerFormat) ==
    [name |-> name, type |-> varType, valueFormat |-> valueFormat,
     headerFormat |-> headerFormat, data |-> << >>]

\* HistoryVariable.reset leaving the data in place
HistoryVariable_reset_Keep(variable) == variable

HistoryVariable_reset(variable) == [variable EXCEPT !.data = << >>]

\* HistoryVariable.write without the conversion to the declared type
HistoryVariable_write_Unconverted(variable, value) ==
    [var |-> [variable EXCEPT !.data = Append(@, value)], err |-> NoError]

\* [var |-> the column after the call, err |-> the exception]
HistoryVariable_write(variable, value) ==
    IF value = None
    THEN [var |-> [variable EXCEPT !.data = Append(@, None)], err |-> NoError]
    ELSE LET c == Convert(variable.type, value)
         IN  IF c.ok
             THEN [var |-> [variable EXCEPT !.data = Append(@, c.val)], err |-> NoError]
             ELSE [var |-> variable, err |-> TypeConversion]

\* HistoryVariable.writeFullHistory extending the data instead of replacing it
HistoryVariable_writeFullHistory_Extend(variable, values) ==
    IF \A j \in 1..Len(values) :
          values[j] = None \/ Convert(variable.type, values[j]).ok
    THEN [var |-> [variable EXCEPT !.data =
                     @ \o [j \in 1..Len(values) |->
                             IF values[j] = None THEN None
                             ELSE Convert(variable.type, values[j]).val]],
          err |-> NoError]
    ELSE [var |-> variable, err |-> TypeConversion]

\* the list comprehension is evaluated before it is assigned
HistoryVariable_writeFullHistory(variable, values) ==
    IF \A j \in 1..Len(values) :
          values[j] = None \/ Convert(variable.type, values[j]).ok
    THEN [var |-> [variable EXCEPT !.data =
                     [j \in 1..Len(values) |->
                        IF values[j] = None THEN None
                        ELSE Convert(variable.type, values[j]).val]],
          err |-> NoError]
    ELSE [var |-> variable, err |-> TypeConversion]

HistoryVariable_getData(variable) == variable.data

\* self._data[iteration], with Python's indexing from the end
HistoryVariable_getValue(variable, iteration) ==
    LET n == Len(variable.data)
    IN  IF iteration >= 0 /\ iteration < n
        THEN [val |-> variable.data[iteration + 1], err |-> NoError]
        ELSE IF iteration < 0 /\ iteration >= -n
        THEN [val |-> variable.data[n + iteration + 1], err |-> NoError]
        ELSE [val |-> None, err |-> IndexOutOfRange]

(***************************************************************************)
(* Format strings.  A value format is the format string itself; a header   *)
(* format "{:^Ns}" is its width N.                                          *)
(***************************************************************************)
NoFormat == "None"

\* SolverHistory._defaultFormat and _DEFAULT_OTHER_FORMAT
DefaultFormat ==
    [float |-> "{: 17.11e}", complex |-> "{: 9.3e}", int |-> "{: 5d}", str |-> "{:^10}"]

DEFAULT_OTHER_FORMAT == "{}"

\* valueFormat.format(varType()): the length of the rendered zero value of the
\* type (0, 0.0, ""), or the ValueError of a format code the type does not have
FormatZero(valueFormat, varType) ==
    CASE valueFormat = "{: 17.11e}" ->
           IF varType = "str" THEN [ok |-> FALSE, len |-> 0]
           ELSE [ok |-> TRUE, len |-> Len(" 0.00000000000e+00")]
      [] valueFormat = "{:9.3e}" ->
           IF varType = "str" THEN [ok |-> FALSE, len |-> 0]
           ELSE [ok |-> TRUE, len |-> Len("0.000e+00")]
      [] valueFormat = "{: 5d}" ->
           IF varType = "int" THEN [ok |-> TRUE, len |-> Len("    0")]
           ELSE [ok |-> FALSE, len |-> 0]
      [] valueFormat = "{:^10}" -> [ok |-> TRUE, len |-> 10]
      [] OTHER ->
           [ok |-> TRUE,
            len |-> CASE varType = "int" -> Len("0")
                      [] varType = "float" -> Len("0.0")
                      [] OTHER -> Len("")]

Max(a, b) == IF a >= b THEN a ELSE b

(***************************************************************************)
(* SolverHistory                                                           *)
(***************************************************************************)
\* name in self._variables
Has(variables, name) == \E j \in 1..Len(variables) : variables[j].name = name

IndexOf(variables, name) == CHOOSE j \in 1..Len(variables) : variables[j].name = name

\* self._variables[name] = variable: an OrderedDict keeps the place of a key
\* that is assigned again
SetVariable(variables, name, variable) ==
    IF Has(variables, name)
    THEN [variables EXCEPT ![IndexOf(variables, name)] = variable]
    ELSE Append(variables, variable)

SolverHistory_getVariables(obj) == [j \in 1..Len(obj.variables) |-> obj.variables[j].name]

SolverHistory_getIter(obj) == obj.iter

\* {name: that column's data}
SolverHistory_getData(obj) ==
    [name \in {obj.variables[j].name : j \in 1..Len(obj.variables)} |->
        HistoryVariable_getData(obj.variables[IndexOf(obj.variables, name)])]

SolverHistory_getMetadata(obj) == obj.metadata

\* addVariable without the test of `overwrite`: an existing column is replaced
SolverHistory_addVariable_Replace(obj, name, varType, printVar, valueFormat, overwrite) ==
    LET fmt == IF valueFormat # NoFormat THEN valueFormat
               ELSE IF varType \in DOMAIN DefaultFormat THEN DefaultFormat[varType]
               ELSE DEFAULT_OTHER_FORMAT
        test == FormatZero(fmt, varType)
        headerFormat == Max(test.len, Len(name)) + 4
    IN  IF ~test.ok
        THEN [self |-> obj, err |-> Configuration, warn |-> FALSE]
        ELSE [self |-> [obj EXCEPT
                          !.variables = SetVariable(@, name,
                              HistoryVariable(name, varType, fmt, headerFormat)),
                          !.printVariables = (name :> printVar) @@ @],
              err |-> NoError, warn |-> ~overwrite /\ Has(obj.variables, name)]

\* [self |-> the object after the call, err |-> the exception, warn |-> warned]
SolverHistory_addVariable(obj, name, varType, printVar, valueFormat, overwrite) ==
    IF ~overwrite /\ Has(obj.variables, name)
    THEN [self |-> obj, err |-> NoError, warn |-> TRUE]
    ELSE LET fmt == IF valueFormat # NoFormat THEN valueFormat
                    ELSE IF varType \in DOMAIN DefaultFormat THEN DefaultFormat[varType]
                    ELSE DEFAULT_OTHER_FORMAT
             test == FormatZero(fmt, varType)
             columnWidth == Max(test.len, Len(name))
             headerFormat == columnWidth + 4
         IN  IF ~test.ok
             THEN [self |-> obj, err |-> Configuration, warn |-> FALSE]
             ELSE [self |-> [obj EXCEPT
                               !.variables = SetVariable(@, name,
                                   HistoryVariable(name, varType, fmt, headerFormat)),
                               !.printVariables = (name :> printVar) @@ @],
                   err |-> NoError, warn |-> FALSE]

\* SolverHistory(includeIter, includeTime)
SolverHistory_init(includeIter, includeTime) ==
    LET empty == [variables |-> << >>,
                  printVariables |-> [name \in {} |-> FALSE],
                  metadata |-> [name \in {} |-> 0],
                  iter |-> 0,
                  startTime |-> -1,
                  includeIter |-> includeIter,
                  includeTime |-> includeTime]
        withIter == IF includeIter
                    THEN SolverHistory_addVariable(empty, "Iter", "int", TRUE, NoFormat, FALSE).self
                    ELSE empty
    IN  IF includeTime
        THEN SolverHistory_addVariable(withIter, "Time", "float", TRUE, "{:9.3e}", FALSE).self
        ELSE withIter

\* reset() leaving the start time in place
SolverHistory_reset_KeepStartTime(obj, clearMetadata) ==
    [obj EXCEPT !.iter = 0,
                !.variables = [j \in 1..Len(obj.variables) |->
                                 HistoryVariable_reset(obj.variables[j])],
                !.metadata = IF clearMetadata THEN [name \in {} |-> 0] ELSE @]

SolverHistory_reset(obj, clearMetadata) ==
    [obj EXCEPT !.iter = 0,
                !.startTime = -1,
                !.variables = [j \in 1..Len(obj.variables) |->
                                 HistoryVariable_reset(obj.variables[j])],
                !.metadata = IF clearMetadata THEN [name \in {} |-> 0] ELSE @]

SolverHistory_addMetadata(obj, name, data) ==
    [obj EXCEPT !.metadata = (name :> data) @@ @]

\* startTiming() keeping a start time that is set already
SolverHistory_startTiming_Once(obj, t) ==
    IF obj.startTime < 0 THEN [obj EXCEPT !.startTime = t] ELSE obj

\* time.time() has returned t
SolverHistory_startTiming(obj, t) == [obj EXCEPT !.startTime = t]

\* the value write() hands to a column: data.pop(name), or None on a KeyError
RowValue(variable, data) ==
    IF variable.name \in DOMAIN data THEN data[variable.name] ELSE None

\* the loop of write() undoing the row when a column raises
WriteColumns_Rollback(variables, data) ==
    LET failing == {j \in 1..Len(variables) :
                      HistoryVariable_write(variables[j], RowValue(variables[j], data)).err
                         # NoError}
    IN  [variables |-> [j \in 1..Len(variables) |->
                          IF failing = {}
                          THEN HistoryVariable_write(variables[j],
                                                     RowValue(variables[j], data)).var
                          ELSE variables[j]],
         err |-> IF failing = {} THEN NoError ELSE TypeConversion]

\* the loop of write() leaving out the columns the row has no key for
WriteColumns_SkipAbsent(variables, data) ==
    LET failing == {j \in 1..Len(variables) :
                      HistoryVariable_write(variables[j], RowValue(variables[j], data)).err
                         # NoError}
        first == IF failing = {} THEN Len(variables) + 1
                 ELSE CHOOSE j \in failing : \A m \in failing : j <= m
    IN  [variables |-> [j \in 1..Len(variables) |->
                          IF j < first /\ variables[j].name \in DOMAIN data
                          THEN HistoryVariable_write(variables[j],
                                                     RowValue(variables[j], data)).var
                          ELSE variables[j]],
         err |-> IF failing = {} THEN NoError ELSE TypeConversion]

\* the loop over self._variables.values(): the columns are written in
\* registration order, and the first TypeError ends the loop
WriteColumns(variables, data) ==
    LET failing == {j \in 1..Len(variables) :
                      HistoryVariable_write(variables[j], RowValue(variables[j], data)).err
                         # NoError}
        first == IF failing = {} THEN Len(variables) + 1
                 ELSE CHOOSE j \in failing : \A m \in failing : j <= m
    IN  [variables |-> [j \in 1..Len(variables) |->
                          IF j < first
                          THEN HistoryVariable_write(variables[j],
                                                     RowValue(variables[j], data)).var
                          ELSE variables[j]],
         err |-> IF failing = {} THEN NoError ELSE TypeConversion]

\* write() with the unknown keys looked for before any column is written
SolverHistory_write_CheckFirst(obj, data, t) ==
    LET timed == IF obj.includeTime /\ obj.startTime < 0
                 THEN SolverHistory_startTiming(obj, t)
                 ELSE obj
        withTime == IF ~obj.includeTime THEN data
                    ELSE IF obj.startTime < 0 THEN ("Time" :> F(0)) @@ data
                    ELSE ("Time" :> F(10 * (t - obj.startTime))) @@ data
        row == IF obj.includeIter THEN ("Iter" :> I(obj.iter)) @@ withTime ELSE withTime
        written == WriteColumns(timed.variables, row)
        after == [timed EXCEPT !.variables = written.variables]
        leftover == {name \in DOMAIN row : ~Has(obj.variables, name)}
    IN  IF leftover # {} THEN [self |-> timed, err |-> UnknownVariable]
        ELSE IF written.err # NoError THEN [self |-> after, err |-> written.err]
        ELSE [self |-> [after EXCEPT !.iter = @ + 1], err |-> NoError]

\* write() keeping an "Iter" entry the caller has put in the row
SolverHistory_write_KeepCallerIter(obj, data, t) ==
    LET timed == IF obj.includeTime /\ obj.startTime < 0
                 THEN SolverHistory_startTiming(obj, t)
                 ELSE obj
        withTime == IF ~obj.includeTime THEN data
                    ELSE IF obj.startTime < 0 THEN ("Time" :> F(0)) @@ data
                    ELSE ("Time" :> F(10 * (t - obj.startTime))) @@ data
        row == IF obj.includeIter THEN withTime @@ ("Iter" :> I(obj.iter)) ELSE withTime
        written == WriteColumns(timed.variables, row)
        after == [timed EXCEPT !.variables = written.variables]
        leftover == {name \in DOMAIN row : ~Has(obj.variables, name)}
    IN  IF written.err # NoError THEN [self |-> after, err |-> written.err]
        ELSE IF leftover # {} THEN [self |-> after, err |-> UnknownVariable]
        ELSE [self |-> [after EXCEPT !.iter = @ + 1], err |-> NoError]

\* write(data) when time.time() returns t: [self |-> ..., err |-> ...]
SolverHistory_write(obj, data, t) ==
    LET timed == IF obj.includeTime /\ obj.startTime < 0
                 THEN SolverHistory_startTiming(obj, t)
                 ELSE obj
        withTime == IF ~obj.includeTime THEN data
                    ELSE IF obj.startTime < 0 THEN ("Time" :> F(0)) @@ data
                    ELSE ("Time" :> F(10 * (t - obj.startTime))) @@ data
        row == IF obj.includeIter THEN ("Iter" :> I(obj.iter)) @@ withTime ELSE withTime
        written == WriteColumns(timed.variables, row)
        after == [timed EXCEPT !.variables = written.variables]
        leftover == {name \in DOMAIN row : ~Has(obj.variables, name)}
    IN  IF written.err # NoError THEN [self |-> after, err |-> written.err]
        ELSE IF leftover # {} THEN [self |-> after, err |-> UnknownVariable]
        ELSE [self |-> [after EXCEPT !.iter = @ + 1], err |-> NoError]

SolverHistory_writeFullVariableHistory(obj, name, values) ==
    IF ~Has(obj.variables, name)
    THEN [self |-> obj, err |-> UnknownVariable]
    ELSE LET j == IndexOf(obj.variables, name)
             w == HistoryVariable_writeFullHistory(obj.variables[j], values)
         IN  [self |-> [obj EXCEPT !.variables[j] = w.var], err |-> w.err]

\* self._variablesToPrint: the columns flagged for printing, in the order of
\* self._printVariables (the registration order)
VariablesToPrint(obj) ==
    SelectSeq(obj.variables, LAMBDA variable : obj.printVariables[variable.name])

\* the `iters` argument of printData: None, one int, or a list of ints
ItersNone == [kind |-> "None", i |-> 0, l |-> << >>]
ItersInt(i) == [kind |-> "int", i |-> i, l |-> << >>]
ItersList(l) == [kind |-> "list", i |-> 0, l |-> l]

NormalIters(iters) ==
    CASE iters.kind = "None" -> <<-1>>
      [] iters.kind = "int" -> <<iters.i>>
      [] OTHER -> iters.l

SeqMax(l) == CHOOSE a \in {l[j] : j \in 1..Len(l)} : \A j \in 1..Len(l) : l[j] <= a
SeqMin(l) == CHOOSE a \in {l[j] : j \in 1..Len(l)} : \A j \in 1..Len(l) : a <= l[j]

\* one printed line: per printed column the value, its value format and the
\* header width it is centred in ("-" for a None)
PrintedLine(obj, i) ==
    LET cols == VariablesToPrint(obj)
    IN  [j \in 1..Len(cols) |->
           LET data == HistoryVariable_getValue(cols[j], i).val
           IN  IF data = None
               THEN [text |-> S("-"), valueFormat |-> NoFormat,
                     headerFormat |-> cols[j].headerFormat]
               ELSE [text |-> data, valueFormat |-> cols[j].valueFormat,
                     headerFormat |-> cols[j].headerFormat]]

\* whether the line of iteration i can be built: no getValue raises
LineOk(obj, i) ==
    \A j \in 1..Len(VariablesToPrint(obj)) :
        HistoryVariable_getValue(VariablesToPrint(obj)[j], i).err = NoError

\* printData() taking the iteration count itself for a recorded iteration
SolverHistory_printData_OffByOne(obj, iters) ==
    LET l == NormalIters(iters)
        bad == {j \in 1..Len(l) : ~LineOk(obj, l[j])}
        stop == IF bad = {} THEN Len(l) + 1 ELSE CHOOSE j \in bad : \A m \in bad : j <= m
    IN  IF Len(l) = 0 THEN [err |-> EmptyIters, out |-> << >>]
        ELSE IF SeqMax(l) > obj.iter \/ SeqMin(l) < -obj.iter
        THEN [err |-> OutOfRange, out |-> << >>]
        ELSE [err |-> IF bad = {} THEN NoError ELSE IndexOutOfRange,
              out |-> [j \in 1..(stop - 1) |-> PrintedLine(obj, l[j])]]

\* printData(iters): [err |-> the exception, out |-> the lines printed]
SolverHistory_printData(obj, iters) ==
    LET l == NormalIters(iters)
        bad == {j \in 1..Len(l) : ~LineOk(obj, l[j])}
        stop == IF bad = {} THEN Len(l) + 1 ELSE CHOOSE j \in bad : \A m \in bad : j <= m
    IN  IF Len(l) = 0 THEN [err |-> EmptyIters, out |-> << >>]
        ELSE IF SeqMax(l) >= obj.iter \/ SeqMin(l) < -obj.iter
        THEN [err |-> OutOfRange, out |-> << >>]
        ELSE [err |-> IF bad = {} THEN NoError ELSE IndexOutOfRange,
              out |-> [j \in 1..(stop - 1) |-> PrintedLine(obj, l[j])]]

(***************************************************************************)
(* The calls a solver makes.  Every action takes the arguments of its call *)
(* from the set it is given.                                               *)
(***************************************************************************)
\* what time.time() can return when the clock may advance by one of `ticks`
Times(ticks) == {t \in now..MaxClock : (t - now) \in ticks}

\* `since`: clean: the calls that changed a column since construction or the
\* last reset were addVariable calls followed by successful write calls only;
\* writes: how many writes succeeded (while clean); called: write has been
\* called; timed: startTiming has been called
Fresh == [clean |-> TRUE, writes |-> 0, called |-> FALSE, timed |-> FALSE]
Soiled(h) == [h EXCEPT !.clean = FALSE, !.writes = 0]

Init ==
    /\ \E includeIter \in BOOLEAN, includeTime \in BOOLEAN :
          self = SolverHistory_init(includeIter, includeTime)
    /\ now = 0
    /\ last = [op |-> "init"]
    /\ since = Fresh

\* a call is <<name, varType, printVar, valueFormat, overwrite>>
AddVariable(calls) ==
    \E call \in calls :
        LET r == SolverHistory_addVariable(self, call[1], call[2], call[3], call[4], call[5])
        IN  /\ self' = r.self
            /\ last' = [op |-> "addVariable", call |-> call, err |-> r.err,
                        warn |-> r.warn]
            /\ since' = IF since.called /\ r.self # self THEN Soiled(since) ELSE since
            /\ UNCHANGED now

AddMetadata(names, datas) ==
    \E name \in names, data \in datas :
        /\ self' = SolverHistory_addMetadata(self, name, data)
        /\ last' = [op |-> "addMetadata", err |-> NoError]
        /\ UNCHANGED <<now, since>>

StartTiming(ticks) ==
    \E t \in Times(ticks) :
        /\ now' = t
        /\ self' = SolverHistory_startTiming(self, t)
        /\ last' = [op |-> "startTiming", err |-> NoError]
        /\ since' = [since EXCEPT !.timed = TRUE]

Write(rows, ticks, maxRows) ==
    /\ self.iter < maxRows
    /\ \A j \in 1..Len(self.variables) : Len(self.variables[j].data) < maxRows
    /\ \E data \in rows, t \in Times(ticks) :
          LET r == SolverHistory_write(self, data, t)
          IN  /\ now' = IF self.includeTime THEN t ELSE now
              /\ self' = r.self
              /\ last' = [op |-> "write", data |-> data, err |-> r.err]
              /\ since' = IF r.err = NoError /\ since.clean
                          THEN [since EXCEPT !.writes = @ + 1, !.called = TRUE]
                          ELSE [Soiled(since) EXCEPT !.called = TRUE]

\* a call is <<name, values>>
WriteFullVariableHistory(calls) ==
    \E call \in calls :
        LET r == SolverHistory_writeFullVariableHistory(self, call[1], call[2])
        IN  /\ self' = r.self
            /\ last' = [op |-> "writeFullVariableHistory", name |-> call[1],
                        values |-> call[2], err |-> r.err]
            /\ since' = IF r.err = NoError THEN Soiled(since) ELSE since
            /\ UNCHANGED now

PrintData(args) ==
    \E iters \in args :
        LET r == SolverHistory_printData(self, iters)
        IN  /\ last' = [op |-> "printData", iters |-> iters, err |-> r.err, out |-> r.out]
            /\ UNCHANGED <<self, now, since>>

Reset ==
    \E clearMetadata \in BOOLEAN :
        /\ self' = SolverHistory_reset(self, clearMetadata)
        /\ last' = [op |-> "reset", clearMetadata |-> clearMetadata, err |-> NoError]
        /\ since' = Fresh
        /\ UNCHANGED now

(***************************************************************************)
(* Spec: a solver that registers columns, writes rows (good and bad),      *)
(* bulk-loads a column and resets, with the clock standing still.          *)
(***************************************************************************)
\* the values a caller supplies: no data, a float, a string that is no number
Raw == {None, F(15), S("abc")}

\* the fourth call gives a format string no str can be rendered with
AddCalls ==
    {<<"x", "int", FALSE, NoFormat, FALSE>>,
     <<"x", "float", TRUE, NoFormat, FALSE>>,
     <<"x", "float", TRUE, NoFormat, TRUE>>,
     <<"x", "str", FALSE, "{: 5d}", TRUE>>,
     <<"y", "int", TRUE, "{:9.3e}", FALSE>>}

\* the dicts handed to write(): values for the columns "x" and "y", for "z",
\* which is never registered, and a caller's own entry under an automatic key
RowDatas ==
    {<< >>,
     [x |-> F(15)], [x |-> None], [x |-> S("abc")],
     [y |-> F(15)], [y |-> S("abc")],
     [x |-> F(15), y |-> F(15)], [x |-> F(15), y |-> S("abc")],
     [x |-> S("abc"), y |-> F(15)],
     [z |-> F(15)], [x |-> F(15), z |-> F(15)], [x |-> S("abc"), z |-> F(15)],
     [Iter |-> I(7)], [Time |-> F(70)]}

\* the histories bulk-loaded into "x": 1.5 and None in turn, of every length
FullValues ==
    {[j \in 1..n |-> IF j % 2 = 1 THEN F(15) ELSE None] : n \in 0..MaxRows}

\* the writeFullVariableHistory calls: <<name, values>>
FullCalls ==
    {<<"x", values>> : values \in FullValues}
       \cup {<<"x", <<None>>>>, <<"x", <<F(15), S("abc")>>>>, <<"z", <<F(15)>>>>}

Next ==
    \/ AddVariable(AddCalls)
    \/ Write(RowDatas, {0}, MaxRows)
    \/ WriteFullVariableHistory(FullCalls)
    \/ Reset

Spec == Init /\ [][Next]_vars

(***************************************************************************)
(* SpecTime: a solver that times its rows: the clock advances, the timer   *)
(* is started by hand or by the first write, metadata is attached and the  *)
(* history is reset.                                                       *)
(***************************************************************************)
\* the second call replaces the automatic "Time" column by an int column
TimeCalls ==
    {<<"x", "int", FALSE, NoFormat, FALSE>>,
     <<"Time", "int", TRUE, NoFormat, TRUE>>}

TimeRows == {<< >>, [x |-> F(15)], [x |-> S("abc")], [z |-> F(15)]}

NextTime ==
    \/ AddVariable(TimeCalls)
    \/ AddMetadata({"opts"}, {1, 2})
    \/ StartTiming({0, 1})
    \/ Write(TimeRows, {0, 1}, MaxRows)
    \/ Reset

SpecTime == Init /\ [][NextTime]_vars

(***************************************************************************)
(* SpecPrint: a solver that prints rows of its history, also after a       *)
(* column was registered late and after a write failed.                    *)
(***************************************************************************)
PrintRows == MaxRows + 1

PrintCalls ==
    {<<"x", "float", TRUE, NoFormat, FALSE>>,
     <<"y", "int", FALSE, NoFormat, FALSE>>}

PrintRowDatas == {<< >>, [x |-> F(15)], [z |-> F(15)]}

PrintIters ==
    {ItersNone} \cup {ItersInt(i) : i \in (-(PrintRows + 1))..PrintRows}
                \cup {ItersList(l) : l \in {<< >>, <<0, -1>>, <<0, PrintRows>>}}

NextPrint ==
    \/ AddVariable(PrintCalls)
    \/ Write(PrintRowDatas, {0}, PrintRows)
    \/ PrintData(PrintIters)
    \/ Reset

SpecPrint == Init /\ [][NextPrint]_vars

(***************************************************************************)
(* Properties of Spec.                                                     *)
(***************************************************************************)
Columns(obj) == 1..Len(obj.variables)

Rows(obj, j) == Len(HistoryVariable_getData(obj.variables[j]))

\* every column holds as many rows as getIter() counts
Lockstep(obj) == \A j \in Columns(obj) : Rows(obj, j) = SolverHistory_getIter(obj)

\* the columns are the same ones, in the same order, with the same settings
SameColumns(a, b) ==
    /\ Len(a.variables) = Len(b.variables)
    /\ \A j \in Columns(a) :
          /\ a.variables[j].name = b.variables[j].name
          /\ a.variables[j].type = b.variables[j].type
          /\ a.variables[j].valueFormat = b.variables[j].valueFormat
          /\ a.variables[j].headerFormat = b.variables[j].headerFormat
    /\ a.printVariables = b.printVariables

\* the "Iter" and "Time" columns write() fills in by itself
Automatic(obj, name) ==
    \/ obj.includeIter /\ name = "Iter"
    \/ obj.includeTime /\ name = "Time"

\* what a write of the row `data`, made on `obj` when the clock shows t, hands
\* to the column `variable`
Handed(obj, variable, data, t) ==
    IF obj.includeIter /\ variable.name = "Iter" THEN I(obj.iter)
    ELSE IF obj.includeTime /\ variable.name = "Time"
    THEN (IF obj.startTime < 0 THEN F(0) ELSE F(10 * (t - obj.startTime)))
    ELSE IF variable.name \in DOMAIN data THEN data[variable.name]
    ELSE None

\* the element a column stores for a value handed to it
Stored(variable, value) ==
    IF value = None THEN None ELSE Convert(variable.type, value).val

\* C1 as stated: in every reachable state getIter() equals the length of the
\* data of every registered column.
C1_LockstepAlways == Lockstep(self)

\* C1, amended: lockstep holds after construction; every reset establishes it;
\* a successful write keeps it and counts one row; an addVariable call keeps it
\* when no row is counted yet or when it only warns or fails.
C1_LockstepKept ==
    /\ Lockstep(self)
    /\ [][/\ last'.op = "reset" => Lockstep(self')
          /\ (Lockstep(self) /\ last'.op = "write" /\ last'.err = NoError)
                => (Lockstep(self') /\ self'.iter = self.iter + 1)
          /\ (Lockstep(self) /\ last'.op = "addVariable"
                /\ (self.iter = 0 \/ last'.warn \/ last'.err # NoError))
                => Lockstep(self')]_vars

\* two rows written in lockstep into columns that include a user column
C1_Witness ==
    /\ last.op = "write" /\ last.err = NoError
    /\ self.iter > 1
    /\ Has(self.variables, "x")
    /\ Lockstep(self)

\* C2: when the columns were all registered before the first write and only
\* successful writes followed, since construction or the last reset, getIter()
\* and the length of every column equal the number of those writes.
C2_RowsEqualWrites ==
    since.clean =>
        /\ SolverHistory_getIter(self) = since.writes
        /\ \A j \in Columns(self) : Rows(self, j) = since.writes

\* two successful writes into the columns "x" and "y", one of which was given
\* no value in the last row
C2_Witness ==
    /\ since.clean /\ since.writes > 1
    /\ Has(self.variables, "x") /\ Has(self.variables, "y")
    /\ last.op = "write" /\ "y" \notin DOMAIN last.data

\* C3: a write whose row has a key that is no registered column, and whose
\* values for the registered columns can all be converted, raises the
\* UnknownVariable error after every registered column has got one more
\* element (the value the row holds for it, converted, or None), and leaves the
\* iteration counter as it was.
C3_UnknownKeyAfterColumns ==
    [][(/\ last'.op = "write"
        /\ \E key \in DOMAIN last'.data : ~Has(self.variables, key)
        /\ \A j \in Columns(self) :
              LET v == Handed(self, self.variables[j], last'.data, now')
              IN  v = None \/ Convert(self.variables[j].type, v).ok)
       => /\ last'.err = UnknownVariable
          /\ self'.iter = self.iter
          /\ SameColumns(self', self)
          /\ \A j \in Columns(self) :
                self'.variables[j].data =
                   Append(self.variables[j].data,
                          Stored(self.variables[j],
                                 Handed(self, self.variables[j], last'.data, now')))]_vars

\* the row {"x": 1.5, "z": 1.5} failed on "z" after the int column "x" stored 1
C3_Witness ==
    /\ last.op = "write" /\ last.err = UnknownVariable
    /\ "x" \in DOMAIN last.data /\ "z" \in DOMAIN last.data
    /\ Has(self.variables, "x")
    /\ LET x == self.variables[IndexOf(self.variables, "x")]
       IN  /\ x.type = "int"
           /\ Len(x.data) = self.iter + 1
           /\ x.data[Len(x.data)] = I(1)

\* C4 as stated: after a failed write some registered column has one more row
\* than another registered column.
C4_FailedWriteUneven ==
    (last.op = "write" /\ last.err # NoError)
       => \E i \in Columns(self), j \in Columns(self) : Rows(self, i) = Rows(self, j) + 1

\* C4, amended: a failed write leaves the iteration counter as it was and
\* undoes nothing.  After the UnknownVariable error every registered column has
\* one more row than before.  After the TypeConversion error the columns
\* registered before the first column whose value cannot be converted have one
\* more row, and that column and the later ones are as before.
C4_FailedWritePartial ==
    [][(last'.op = "write" /\ last'.err # NoError)
       => /\ self'.iter = self.iter
          /\ SameColumns(self', self)
          /\ last'.err \in {UnknownVariable, TypeConversion}
          /\ last'.err = UnknownVariable
                => \A j \in Columns(self) : Rows(self', j) = Rows(self, j) + 1
          /\ last'.err = TypeConversion
                => \E k \in Columns(self) :
                      LET v == Handed(self, self.variables[k], last'.data, now')
                      IN  /\ v # None /\ ~Convert(self.variables[k].type, v).ok
                          /\ \A j \in Columns(self) :
                                IF j < k
                                THEN /\ Rows(self', j) = Rows(self, j) + 1
                                     /\ SubSeq(self'.variables[j].data, 1, Rows(self, j))
                                           = self.variables[j].data
                                ELSE self'.variables[j].data = self.variables[j].data]_vars

\* a write failed on the value of "y" after "x" was written: "x" has one more
\* row than "y"
C4_Witness ==
    /\ last.op = "write" /\ last.err = TypeConversion
    /\ Has(self.variables, "x") /\ Has(self.variables, "y")
    /\ IndexOf(self.variables, "x") < IndexOf(self.variables, "y")
    /\ Rows(self, IndexOf(self.variables, "x")) = Rows(self, IndexOf(self.variables, "y")) + 1

\* C5: addVariable without overwrite, for a name that is registered, raises
\* nothing, warns, and leaves the whole object as it was: the columns with
\* their types, formats, data and print flags, their order, the iteration
\* counter, the start time and the metadata.
C5_DuplicateLeavesAll ==
    [][(/\ last'.op = "addVariable"
        /\ ~last'.call[5]
        /\ Has(self.variables, last'.call[1]))
       => /\ last'.err = NoError
          /\ last'.warn
          /\ self' = self]_vars

\* addVariable("x", float) has only warned: "x" is still the int column, with
\* the row it holds
C5_Witness ==
    /\ last.op = "addVariable" /\ last.warn
    /\ last.call[1] = "x" /\ last.call[2] = "float"
    /\ LET x == self.variables[IndexOf(self.variables, "x")]
       IN  x.type = "int" /\ Len(x.data) > 0 /\ ~self.printVariables["x"]

\* C8: writeFullVariableHistory of a name that is not registered raises the
\* UnknownVariable error and changes nothing; of a registered name, with
\* values that can all be converted, it makes that column's data the converted
\* values, None kept in place and the former data dropped (so that getData()
\* reads them back), and changes neither the iteration counter, the start
\* time, the metadata nor any other column.
C8_FullHistoryReplacesOneColumn ==
    [][last'.op = "writeFullVariableHistory"
       => LET name == last'.name
              values == last'.values
          IN  IF ~Has(self.variables, name)
              THEN last'.err = UnknownVariable /\ self' = self
              ELSE LET k == IndexOf(self.variables, name)
                   IN  (\A j \in 1..Len(values) :
                           values[j] = None
                              \/ Convert(self.variables[k].type, values[j]).ok)
                       => /\ last'.err = NoError
                          /\ Len(SolverHistory_getData(self')[name]) = Len(values)
                          /\ \A j \in 1..Len(values) :
                                SolverHistory_getData(self')[name][j]
                                   = Stored(self.variables[k], values[j])
                          /\ SameColumns(self', self)
                          /\ \A j \in Columns(self) :
                                j # k => self'.variables[j].data = self.variables[j].data
                          /\ self'.iter = self.iter
                          /\ self'.startTime = self.startTime
                          /\ self'.metadata = self.metadata]_vars

\* the float column "x" reads back [1.5, None] after it was loaded over data
\* of another length
C8_Witness ==
    /\ last.op = "writeFullVariableHistory" /\ last.err = NoError
    /\ last.values = <<F(15), None>>
    /\ Has(self.variables, "x")
    /\ self.variables[IndexOf(self.variables, "x")].type = "float"
    /\ SolverHistory_getData(self)["x"] = <<F(15), None>>
    /\ self.iter = 1

\* C10: a successful write appends one element to every registered column and
\* changes no element stored before.  For a column other than the automatic
\* "Iter" and "Time" the element is the value the row gives under the column's
\* name, converted to the column's type; it is None when the row has no such
\* key, and a None the row gives is stored as it is.
C10_RowAppended ==
    [][(last'.op = "write" /\ last'.err = NoError)
       => /\ SameColumns(self', self)
          /\ \A j \in Columns(self) :
                LET variable == self.variables[j]
                    data == self'.variables[j].data
                IN  /\ Len(data) = Len(variable.data) + 1
                    /\ SubSeq(data, 1, Len(variable.data)) = variable.data
                    /\ ~Automatic(self, variable.name)
                          => data[Len(data)] =
                               IF variable.name \notin DOMAIN last'.data THEN None
                               ELSE IF last'.data[variable.name] = None THEN None
                               ELSE Convert(variable.type, last'.data[variable.name]).val]_vars

\* a second row {"x": 1.5} was written: the int column "x" stored 1 and the
\* column "y" stored None
C10_Witness ==
    /\ last.op = "write" /\ last.err = NoError
    /\ last.data = [x |-> F(15)]
    /\ Has(self.variables, "x") /\ Has(self.variables, "y")
    /\ LET x == self.variables[IndexOf(self.variables, "x")]
           y == self.variables[IndexOf(self.variables, "y")]
       IN  /\ x.type = "int" /\ Len(x.data) > 1 /\ x.data[Len(x.data)] = I(1)
           /\ Len(y.data) > 0 /\ y.data[Len(y.data)] = None

\* the data of the "Iter" column
IterData(obj) == obj.variables[IndexOf(obj.variables, "Iter")].data

\* position i of the "Iter" column holds i
IterIsIndex(obj) ==
    \A i \in 0..(Len(IterData(obj)) - 1) : IterData(obj)[i + 1] = I(i)

\* C11 as stated: with iteration tracking, in every state reached by writes
\* (successful or failed, whatever "Iter" key the row has) and resets, the
\* element at position i of the "Iter" column equals i.
C11_IterIsIndexAlways == self.includeIter => IterIsIndex(self)

\* C11, amended: with iteration tracking, every write call, successful or
\* failed and whatever "Iter" key the row has, appends the iteration counter
\* as it is at the call to the "Iter" column.  Position i of the column holds
\* i as long as no write has failed since construction or the last reset; a
\* failed write leaves the counter as it was, and a write made while the
\* counter differs from the length of the column stores a number that is not
\* its position.
C11_IterColumnCounts ==
    /\ self.includeIter => IterIsIndex(self)
    /\ [][self.includeIter
            => /\ last'.op = "write"
                     => IterData(self') = Append(IterData(self), I(self.iter))
               /\ since'.clean => IterIsIndex(self')
               /\ (last'.op = "write" /\ self.iter # Len(IterData(self)))
                     => ~IterIsIndex(self')]_vars

\* a second row, which brought an "Iter" entry of its own, was written: the
\* "Iter" column holds 0 and 1
C11_Witness ==
    /\ self.includeIter
    /\ last.op = "write" /\ last.err = NoError
    /\ last.data = [Iter |-> I(7)]
    /\ since.clean
    /\ IterData(self) = <<I(0), I(1)>>

(***************************************************************************)
(* Properties of SpecPrint.                                                *)
(***************************************************************************)
\* some requested index is not in [-iterationCount, iterationCount)
Beyond(obj, l) == \E j \in 1..Len(l) : l[j] >= obj.iter \/ l[j] < -obj.iter

\* every printed column holds the index i
Held(obj, i) ==
    \A j \in Columns(obj) :
        obj.printVariables[obj.variables[j].name]
           => (i < Rows(obj, j) /\ i >= -Rows(obj, j))

\* C6 as stated: printData fails with the OutOfRange error exactly when some
\* requested index is >= the iteration counter or < -(iteration counter), and
\* otherwise succeeds, printing one row per requested index; it changes no
\* state.
C6_PrintFailsOnlyBeyond ==
    [][last'.op = "printData"
       => LET l == NormalIters(last'.iters)
          IN  /\ (last'.err # NoError) <=> Beyond(self, l)
              /\ last'.err # NoError => last'.err = OutOfRange
              /\ last'.err = NoError => Len(last'.out) = Len(l)
              /\ self' = self]_vars

\* C6, amended: printData changes no state.  For a request that is not empty
\* it fails with the OutOfRange error exactly when some requested index is >=
\* the iteration counter or < -(iteration counter).  Otherwise it prints one
\* row per requested index if every printed column holds every requested
\* index, as the columns of a history in lockstep do; if not, it prints the
\* rows before the first index a printed column does not hold and fails with
\* that column's IndexError.  An empty request fails in max().
C6_PrintOutcome ==
    [][last'.op = "printData"
       => LET l == NormalIters(last'.iters)
              unheld == {j \in 1..Len(l) : ~Held(self, l[j])}
          IN  /\ self' = self
              /\ (last'.err = EmptyIters) <=> (Len(l) = 0)
              /\ (last'.err = OutOfRange) <=> (Len(l) > 0 /\ Beyond(self, l))
              /\ (Len(l) > 0 /\ ~Beyond(self, l))
                    => IF unheld = {}
                       THEN last'.err = NoError /\ Len(last'.out) = Len(l)
                       ELSE /\ last'.err = IndexOutOfRange
                            /\ \A j \in unheld : Len(last'.out) < j
                            /\ (Len(last'.out) + 1) \in unheld
              /\ (Lockstep(self) /\ Len(l) > 0 /\ ~Beyond(self, l)) => last'.err = NoError]_vars

\* on a history of three rows in lockstep, printData(-1) has printed one row
C6_Witness ==
    /\ last.op = "printData" /\ last.err = NoError
    /\ last.iters = ItersInt(-1)
    /\ self.iter = 3 /\ Lockstep(self)
    /\ Len(last.out) = 1

(***************************************************************************)
(* Properties of SpecTime.                                                 *)
(***************************************************************************)
\* C7: reset(clearMetadata) sets the iteration counter to 0 and the start time
\* to the unset -1 and empties the data of every column; it keeps the columns,
\* their order, types, formats and print flags; it empties the metadata when
\* clearMetadata is true and keeps it otherwise.  A second reset changes
\* nothing more, and a reset of a fresh object changes neither getIter() nor
\* getData().
C7_ResetClearsRows ==
    [][last'.op = "reset"
       => /\ SolverHistory_getIter(self') = 0
          /\ self'.startTime = -1
          /\ \A j \in Columns(self') : self'.variables[j].data = << >>
          /\ SameColumns(self', self)
          /\ self'.includeIter = self.includeIter
          /\ self'.includeTime = self.includeTime
          /\ self'.metadata = IF last'.clearMetadata THEN [name \in {} |-> 0]
                              ELSE self.metadata
          /\ (last.op = "reset" /\ last.clearMetadata = last'.clearMetadata)
                => self' = self
          /\ last.op = "init"
                => /\ SolverHistory_getIter(self') = SolverHistory_getIter(self)
                   /\ SolverHistory_getData(self') = SolverHistory_getData(self)]_vars

\* reset() has emptied a timed history with a user column and kept its metadata
C7_Witness ==
    /\ last.op = "reset" /\ ~last.clearMetadata
    /\ "opts" \in DOMAIN self.metadata
    /\ Has(self.variables, "x")
    /\ since = Fresh
    /\ now > 0

\* the element the "Time" column got last
LastTime(obj) ==
    LET data == obj.variables[IndexOf(obj.variables, "Time")].data
    IN  data[Len(data)]

TimeType(obj) == obj.variables[IndexOf(obj.variables, "Time")].type

\* C9 as stated: with time tracking, the first write after construction or
\* reset sets the start time to the current time and records 0.0; every later
\* write records the current time less the start time and leaves the start
\* time; startTiming sets the start time to the current time.
C9_FirstWriteStartsClock ==
    [][/\ (last'.op = "write" /\ self.includeTime)
            => IF ~since.called
               THEN /\ self'.startTime = now'
                    /\ LastTime(self') = Convert(TimeType(self), F(0)).val
               ELSE /\ self'.startTime = self.startTime
                    /\ LastTime(self') =
                         Convert(TimeType(self), F(10 * (now' - self.startTime))).val
       /\ last'.op = "startTiming" => self'.startTime = now']_vars

\* C9, amended: with time tracking, a write made while no start time is set
\* sets it to the current time and records 0.0; a write made while one is set
\* records the current time less the start time and leaves it.  startTiming
\* sets the start time to the current time.  No start time is set exactly when
\* neither startTiming nor (with time tracking) write has been called since
\* construction or the last reset: the first write after a startTiming records
\* the time since that call, not 0.0.
C9_ClockReference ==
    /\ self.startTime < 0
    /\ [][/\ (last'.op = "write" /\ self.includeTime)
               => IF self.startTime < 0
                  THEN /\ self'.startTime = now'
                       /\ LastTime(self') = Convert(TimeType(self), F(0)).val
                  ELSE /\ self'.startTime = self.startTime
                       /\ LastTime(self') =
                            Convert(TimeType(self), F(10 * (now' - self.startTime))).val
          /\ last'.op = "startTiming" => self'.startTime = now'
          /\ (self'.startTime < 0)
                <=> ~(since'.timed \/ (since'.called /\ self.includeTime))]_vars

\* the timer was started by hand at time 1; the first write, made at time 2,
\* recorded the time since that call
C9_Witness ==
    /\ last.op = "write" /\ since.timed /\ since.clean /\ since.writes = 1
    /\ self.includeTime /\ TimeType(self) = "float"
    /\ self.startTime = 1 /\ now = 2
    /\ LastTime(self) = F(10)

====
